---- MODULE Spec2Model ----
(***************************************************************************)
(* Open-Loop Optimistic Planning in a deterministic MDP:                   *)
(* OptimisticDeterministicPlanner and DeterministicNode of                 *)
(* rl_agents/agents/tree_search/deterministic.py.                          *)
(*                                                                         *)
(* The tree is an arena: nodes is a sequence of node records and a node    *)
(* is named by its index (Python object identity).  Reals are exact        *)
(* rationals <<numerator, denominator>> in lowest terms.                   *)
(***************************************************************************)
EXTENDS Integers, Sequences, FiniteSets, TLC

VARIABLES
    config,          \* planner configuration: budget, gamma, restart, ignore_terminal
    env,             \* the deterministic environment: reward and done tables
    nodes,           \* arena of DeterministicNode objects
    root,            \* planner.root (node id)
    leaves,          \* planner.leaves (list of node ids)
    oracle_calls,    \* planner.oracle_calls
    pc,              \* position of the single thread of control
    iter,            \* number of run() cycles started by the current plan()
    leaf_to_expand,  \* run(): the chosen leaf
    action,          \* expand(): loop variable of "for action in actions"
    replay,          \* expand(): loop variable of the restart replay loop
    created,         \* expand(): children created by the current call, in order
    plan_result,     \* the action list the last call returned, if it was a plan()
    plans,           \* number of plan() calls made
    last_op,         \* the last planner method that returned
    last_call        \* arguments of the latest step_state call of the current plan()

vars == <<config, env, nodes, root, leaves, oracle_calls, pc, iter,
          leaf_to_expand, action, replay, created, plan_result, plans, last_op,
          last_call>>

----------------------------------------------------------------------------
(* Bounds of the model *)

NumActions == 2
MaxBudget == 3
MaxPlans == 2

None == -1

Actions == 0 .. (NumActions - 1)
Budgets == 1 .. MaxBudget
EnvStates == {0, 1}

----------------------------------------------------------------------------
(* Exact rational arithmetic for value, value_upper_bound, reward, gamma *)

RECURSIVE GCD(_, _)
GCD(a, b) == IF b = 0 THEN a ELSE GCD(b, a % b)

Abs(x) == IF x < 0 THEN 0 - x ELSE x

Rat(n, d) == LET g == GCD(Abs(n), d) IN <<n \div g, d \div g>>

Zero == <<0, 1>>
One == <<1, 1>>

RAdd(x, y) ==
    LET g == GCD(x[2], y[2])
    IN Rat(x[1] * (y[2] \div g) + y[1] * (x[2] \div g), (x[2] \div g) * y[2])

RNeg(x) == <<0 - x[1], x[2]>>

RSub(x, y) == RAdd(x, RNeg(y))

RMul(x, y) ==
    LET g1 == GCD(Abs(x[1]), y[2])
        g2 == GCD(Abs(y[1]), x[2])
    IN Rat((x[1] \div g1) * (y[1] \div g2), (x[2] \div g2) * (y[2] \div g1))

\* division by a positive rational
RDiv(x, y) == RMul(x, <<y[2], y[1]>>)

RLeq(x, y) ==
    LET g == GCD(x[2], y[2])
    IN x[1] * (y[2] \div g) <= y[1] * (x[2] \div g)

RLt(x, y) == RLeq(x, y) /\ x # y

RECURSIVE RPow(_, _)
RPow(x, k) == IF k = 0 THEN One ELSE RMul(x, RPow(x, k - 1))

\* np.amax over a non-empty collection of reals
RMax(S) == CHOOSE x \in S : \A y \in S : RLeq(y, x)

Range(s) == {s[i] : i \in 1 .. Len(s)}

----------------------------------------------------------------------------
(* Inputs: configurations and environments *)

Gammas == {<<1, 2>>}
Rewards == {Zero, One}

Configs == [budget : Budgets, gamma : Gammas,
            restart : BOOLEAN, ignore_terminal : BOOLEAN]

\* A deterministic environment over EnvStates: the transition structure is
\* fixed, its rewards and terminal states are arbitrary.
Envs == [reward : [EnvStates \X Actions -> Rewards], done : [EnvStates -> BOOLEAN]]

EnvNext(s, a) == (s + a + 1) % Cardinality(EnvStates)

\* The state the environment starts in.  Rewards and terminal states being
\* arbitrary and EnvNext being the same under a renaming of the states, every
\* start state gives the same trees.
StartState == CHOOSE s \in EnvStates : \A t \in EnvStates : s <= t

\* state.step(action) of the environment: (next state, reward, done)
EnvStep(e, s, a) ==
    [state |-> EnvNext(s, a), reward |-> e.reward[<<s, a>>], done |-> e.done[EnvNext(s, a)]]

----------------------------------------------------------------------------
(* Nodes *)

\* DeterministicNode.__init__ on top of Node.__init__
NewNode(parent, state, depth) ==
    [parent |-> parent, children |-> <<>>, state |-> state, depth |-> depth,
     reward |-> Zero, value |-> Zero, value_upper_bound |-> Zero,
     count |-> 1, done |-> FALSE, updated |-> FALSE]

NodeIds == 1 .. Len(nodes)

\* children is a dict keyed by action 0 .. k-1 in insertion order; it is held
\* as the sequence of child ids, the child of action a at index a + 1.
ChildKeys(ns, x) == 0 .. (Len(ns[x].children) - 1)
Child(ns, x, a) == ns[x].children[a + 1]

----------------------------------------------------------------------------
(* Pure operations on the tree *)

\* self.children[action] = child: replaces the entry of an existing key,
\* appends a new key otherwise (keys arrive in the order 0, 1, 2, ...)
SetChild(kids, a, c) ==
    IF a + 1 <= Len(kids) THEN [kids EXCEPT ![a + 1] = c] ELSE Append(kids, c)

\* DeterministicNode.update(reward, done) on node c
Update(ns, c, reward, done, gamma) ==
    LET d == ns[c].depth
        value == RAdd(ns[ns[c].parent].value, RMul(RPow(gamma, d - 1), reward))
        bonus == IF done THEN Zero ELSE RDiv(RPow(gamma, d), RSub(One, gamma))
    IN [ns EXCEPT ![c].reward = reward,
                  ![c].value = value,
                  ![c].done = done,
                  ![c].value_upper_bound = RAdd(value, bonus),
                  ![c].updated = TRUE]

\* a leaf choice that keeps the last of several maximal leaves
LeafToExpand_LastMax(ns, lv) ==
    LET i == CHOOSE k \in 1 .. Len(lv) :
                 /\ \A j \in 1 .. Len(lv) :
                        RLeq(ns[lv[j]].value_upper_bound, ns[lv[k]].value_upper_bound)
                 /\ \A j \in (k + 1) .. Len(lv) :
                        ns[lv[j]].value_upper_bound # ns[lv[k]].value_upper_bound
    IN lv[i]

\* max(self.leaves, key=get_value_upper_bound): the first maximum
LeafToExpand(ns, lv) ==
    LET i == CHOOSE k \in 1 .. Len(lv) :
                 /\ \A j \in 1 .. Len(lv) :
                        RLeq(ns[lv[j]].value_upper_bound, ns[lv[k]].value_upper_bound)
                 /\ \A j \in 1 .. (k - 1) :
                        ns[lv[j]].value_upper_bound # ns[lv[k]].value_upper_bound
    IN lv[i]

\* list.remove(x): drops the first occurrence
RemoveFirst(lv, x) ==
    LET i == CHOOSE k \in 1 .. Len(lv) : lv[k] = x /\ \A j \in 1 .. (k - 1) : lv[j] # x
    IN SubSeq(lv, 1, i - 1) \o SubSeq(lv, i + 1, Len(lv))

\* a backup that writes the maximum bound into the parent, not into the node
\* it was called on
RECURSIVE BackupToRoot_ParentBound(_, _)
BackupToRoot_ParentBound(ns, x) ==
    IF ns[x].parent = None THEN ns
    ELSE LET p == ns[x].parent
             kids == Range(ns[p].children)
             ns1 == [ns EXCEPT
                        ![p].value = RMax({ns[c].value : c \in kids}),
                        ![p].value_upper_bound =
                            RMax({ns[c].value_upper_bound : c \in kids})]
             ns2 == BackupToRoot_ParentBound(ns1, p)
         IN [ns2 EXCEPT ![x].count = @ + 1]

\* DeterministicNode.backup_to_root()
RECURSIVE BackupToRoot(_, _)
BackupToRoot(ns, x) ==
    IF ns[x].parent = None THEN ns
    ELSE LET p == ns[x].parent
             kids == Range(ns[p].children)
             ns1 == [ns EXCEPT
                        ![p].value = RMax({ns[c].value : c \in kids}),
                        ![x].value_upper_bound =
                            RMax({ns[c].value_upper_bound : c \in kids})]
             ns2 == BackupToRoot(ns1, p)
         IN [ns2 EXCEPT ![x].count = @ + 1]

\* a backup_values that reads its children's values before it has backed
\* them up
RECURSIVE BackupValues_StaleChildren(_, _)
RECURSIVE BackupChildren_Stale(_, _, _)
BackupChildren_Stale(ns, kids, i) ==
    IF i > Len(kids) THEN ns
    ELSE BackupChildren_Stale(BackupValues_StaleChildren(ns, kids[i]), kids, i + 1)

BackupValues_StaleChildren(ns, x) ==
    IF ns[x].children = <<>> THEN ns
    ELSE LET ns1 == BackupChildren_Stale(ns, ns[x].children, 1)
             kids == Range(ns[x].children)
         IN [ns1 EXCEPT
                ![x].value = RMax({ns[c].value : c \in kids}),
                ![x].value_upper_bound = RMax({ns[c].value_upper_bound : c \in kids})]

\* DeterministicNode.backup_values()
RECURSIVE BackupValues(_, _)
RECURSIVE BackupChildren(_, _, _)
BackupChildren(ns, kids, i) ==
    IF i > Len(kids) THEN ns
    ELSE BackupChildren(BackupValues(ns, kids[i]), kids, i + 1)

BackupValues(ns, x) ==
    IF ns[x].children = <<>> THEN ns
    ELSE LET ns1 == BackupChildren(ns, ns[x].children, 1)
             kids == Range(ns[x].children)
         IN [ns1 EXCEPT
                ![x].value = RMax({ns1[c].value : c \in kids}),
                ![x].value_upper_bound = RMax({ns1[c].value_upper_bound : c \in kids})]

\* Node.random_argmax: any index of a maximal element
RandomArgmax(xs) == {i \in 1 .. Len(xs) : \A j \in 1 .. Len(xs) : RLeq(xs[j], xs[i])}

\* a selection rule that ranks the children by value_upper_bound
SelectionRule_UpperBound(ns, x) ==
    IF ns[x].children = <<>> THEN {None}
    ELSE LET actions == [i \in 1 .. Len(ns[x].children) |-> i - 1]
             values == [i \in 1 .. Len(actions) |->
                            ns[Child(ns, x, actions[i])].value_upper_bound]
         IN {actions[index] : index \in RandomArgmax(values)}

\* DeterministicNode.selection_rule(): the set of its possible results
SelectionRule(ns, x) ==
    IF ns[x].children = <<>> THEN {None}
    ELSE LET actions == [i \in 1 .. Len(ns[x].children) |-> i - 1]
             values == [i \in 1 .. Len(actions) |-> ns[Child(ns, x, actions[i])].value]
         IN {actions[index] : index \in RandomArgmax(values)}

\* AbstractPlanner.get_plan(): the set of action lists it can return
RECURSIVE GetPlan(_, _)
GetPlan(ns, x) ==
    IF ns[x].children = <<>> THEN {<<>>}
    ELSE UNION {{<<a>> \o p : p \in GetPlan(ns, Child(ns, x, a))} :
                a \in SelectionRule(ns, x)}

\* AbstractPlanner.step_by_subtree(action) for an explored action: the child
\* becomes the root and loses its parent
SuperStepBySubtree(ns, r, a) ==
    LET c == Child(ns, r, a)
    IN [nodes |-> [ns EXCEPT ![c].parent = None], root |-> c]

\* a rescaling loop that removes the reward but does not undo the discount
RECURSIVE Rescale_NoDiscount(_, _, _, _, _)
Rescale_NoDiscount(ns, lv, i, r, gamma) ==
    IF i > Len(lv) THEN ns
    ELSE LET leaf == lv[i]
             ns1 == [ns EXCEPT
                        ![leaf].value = RSub(ns[leaf].value, ns[r].reward),
                        ![leaf].value_upper_bound =
                            RSub(ns[leaf].value_upper_bound, ns[r].reward)]
         IN Rescale_NoDiscount(ns1, lv, i + 1, r, gamma)

\* the rescaling loop of step_by_subtree over the list lv
RECURSIVE Rescale(_, _, _, _, _)
Rescale(ns, lv, i, r, gamma) ==
    IF i > Len(lv) THEN ns
    ELSE LET leaf == lv[i]
             ns1 == [ns EXCEPT
                        ![leaf].value = RDiv(RSub(ns[leaf].value, ns[r].reward), gamma),
                        ![leaf].value_upper_bound =
                            RDiv(RSub(ns[leaf].value_upper_bound, ns[r].reward), gamma)]
         IN Rescale(ns1, lv, i + 1, r, gamma)

\* AbstractPlanner.step_state meters the oracle: one more call on the counter
StepStateCalls(calls) == calls + 1

\* what step_state was called with: the state object's value and the action
StepStateArgs(s, a) == [state |-> s, action |-> a]

\* no step_state call yet in the current plan()
NoCall == StepStateArgs(None, None)

\* expand(), line 88: self.state is None
StateNotSet(ns, x) == ns[x].state = None

\* a budget test that lets one call too many through
BudgetExceeded(calls) == calls > config.budget

\* self.oracle_calls >= self.config["budget"]
BudgetReached(calls) == calls >= config.budget

\* a cycle count that rounds the quotient down
NumRuns_Floor == config.budget \div NumActions

\* range(int(np.ceil(budget / n)))
NumRuns == (config.budget + NumActions - 1) \div NumActions

----------------------------------------------------------------------------
(* Initial state: the planner after construction (make_root) *)

Init ==
    /\ config \in Configs
    /\ env \in Envs
    /\ nodes = <<NewNode(None, None, 0)>>
    /\ root = 1
    /\ leaves = <<1>>
    /\ oracle_calls = 0
    /\ pc = "idle"
    /\ iter = 0
    /\ leaf_to_expand = None
    /\ action = 0
    /\ replay = 0
    /\ created = <<>>
    /\ plan_result = <<>>
    /\ plans = 0
    /\ last_op = "make_root"
    /\ last_call = NoCall

----------------------------------------------------------------------------
(* plan(state, observation) *)

\* lines 51-53: bind the state to the root, reset the counter, enter the loop.
\* The caller passes the environment in its current state: the start state
\* for a fresh root, and the state the deterministic environment reached along
\* the committed actions (the one the root already holds) afterwards.
Plan(state) ==
    /\ pc = "idle"
    /\ plans < MaxPlans
    /\ state = IF nodes[root].state = None THEN StartState ELSE nodes[root].state
    /\ plans' = plans + 1
    /\ nodes' = [nodes EXCEPT ![root].state = state]
    /\ oracle_calls' = 0
    /\ iter' = 0
    /\ pc' = "plan_loop"
    /\ plan_result' = <<>>
    /\ UNCHANGED <<config, env, root, leaves, leaf_to_expand, action, replay,
                   created, last_op, last_call>>

\* a run() that breaks ties between maximal leaves by chance
RunSelect_AnyMaxLeaf ==
    /\ pc = "plan_loop"
    /\ iter < NumRuns
    /\ iter' = iter + 1
    /\ \E k \in 1 .. Len(leaves) :
          /\ \A j \in 1 .. Len(leaves) :
                 RLeq(nodes[leaves[j]].value_upper_bound,
                      nodes[leaves[k]].value_upper_bound)
          /\ leaf_to_expand' = leaves[k]
          /\ IF ~nodes[leaves[k]].done \/ config.ignore_terminal
             THEN /\ pc' = IF StateNotSet(nodes, leaves[k]) THEN "error" ELSE "expand"
                  /\ action' = 0
                  /\ created' = <<>>
             ELSE /\ pc' = "backup"
                  /\ UNCHANGED <<action, created>>
    /\ UNCHANGED <<config, env, nodes, root, leaves, oracle_calls, replay,
                   plan_result, plans, last_op, last_call>>

\* a run() that expands the chosen leaf whether or not it is terminal
RunSelect_ExpandsTerminal ==
    /\ pc = "plan_loop"
    /\ iter < NumRuns
    /\ iter' = iter + 1
    /\ LET leaf == LeafToExpand(nodes, leaves)
       IN /\ leaf_to_expand' = leaf
          /\ pc' = IF StateNotSet(nodes, leaf) THEN "error" ELSE "expand"
          /\ action' = 0
          /\ created' = <<>>
    /\ UNCHANGED <<config, env, nodes, root, leaves, oracle_calls, replay,
                   plan_result, plans, last_op, last_call>>

\* run(), lines 44-46: choose the leaf, enter expand unless it is terminal and
\* terminal leaves are not ignored
RunSelect ==
    /\ pc = "plan_loop"
    /\ iter < NumRuns
    /\ iter' = iter + 1
    /\ LET leaf == LeafToExpand(nodes, leaves)
       IN /\ leaf_to_expand' = leaf
          /\ IF ~nodes[leaf].done \/ config.ignore_terminal
             THEN /\ pc' = IF StateNotSet(nodes, leaf) THEN "error" ELSE "expand"
                  /\ action' = 0
                  /\ created' = <<>>
             ELSE /\ pc' = "backup"
                  /\ UNCHANGED <<action, created>>
    /\ UNCHANGED <<config, env, nodes, root, leaves, oracle_calls, replay,
                   plan_result, plans, last_op, last_call>>

\* a run() on an unbound root whose expand tests the state only after it has
\* created the first child
RunUnbound_ChecksLate ==
    /\ pc = "idle"
    /\ LET leaf == LeafToExpand(nodes, leaves)
       IN /\ StateNotSet(nodes, leaf)
          /\ ~nodes[leaf].done \/ config.ignore_terminal
          /\ leaf_to_expand' = leaf
          /\ nodes' = Append([nodes EXCEPT ![leaf].children =
                                              SetChild(@, 0, Len(nodes) + 1)],
                             NewNode(leaf, nodes[leaf].state, nodes[leaf].depth + 1))
    /\ pc' = "error"
    /\ UNCHANGED <<config, env, root, leaves, oracle_calls, iter, action,
                   replay, created, plan_result, plans, last_op, last_call>>

\* run() called on a planner whose root plan() has not bound to a state yet:
\* lines 44-46, then expand() raises at lines 88-89 and the exception leaves
\* run()
RunUnbound ==
    /\ pc = "idle"
    /\ LET leaf == LeafToExpand(nodes, leaves)
       IN /\ StateNotSet(nodes, leaf)
          /\ ~nodes[leaf].done \/ config.ignore_terminal
          /\ leaf_to_expand' = leaf
    /\ pc' = "error"
    /\ UNCHANGED <<config, env, nodes, root, leaves, oracle_calls, iter, action,
                   replay, created, plan_result, plans, last_op, last_call>>

\* expand(), lines 94-98 and 101: the next action's child is created
ExpandCreate ==
    /\ pc = "expand"
    /\ action < NumActions
    /\ LET self == leaf_to_expand
           c == Len(nodes) + 1
       IN /\ nodes' = Append([nodes EXCEPT ![self].children = SetChild(@, action, c)],
                             NewNode(self, nodes[self].state, nodes[self].depth + 1))
          /\ created' = Append(created, c)
          /\ pc' = IF config.restart /\ nodes[self].depth > 0 THEN "replay" ELSE "step"
    /\ replay' = 0
    /\ UNCHANGED <<config, env, root, leaves, oracle_calls, iter, leaf_to_expand,
                   action, plan_result, plans, last_op, last_call>>

\* a replay loop that runs to its end whatever the counter says
ExpandReplay_IgnoresBudget ==
    /\ pc = "replay"
    /\ last_call' = StepStateArgs(nodes[Child(nodes, leaf_to_expand, action)].state,
                                  action)
    /\ oracle_calls' = StepStateCalls(oracle_calls)
    /\ replay' = replay + 1
    /\ pc' = IF replay' < nodes[leaf_to_expand].depth THEN "replay" ELSE "step"
    /\ UNCHANGED <<config, env, nodes, root, leaves, iter, leaf_to_expand, action,
                   created, plan_result, plans, last_op>>

\* expand(), lines 102-105: one replay step, made with the action of the child
\* being created on a fresh clone of that child's state; the result is dropped
ExpandReplay ==
    /\ pc = "replay"
    /\ last_call' = StepStateArgs(nodes[Child(nodes, leaf_to_expand, action)].state,
                                  action)
    /\ oracle_calls' = StepStateCalls(oracle_calls)
    /\ replay' = replay + 1
    /\ pc' = IF BudgetReached(oracle_calls') THEN "backup"
             ELSE IF replay' < nodes[leaf_to_expand].depth THEN "replay"
             ELSE "step"
    /\ UNCHANGED <<config, env, nodes, root, leaves, iter, leaf_to_expand, action,
                   created, plan_result, plans, last_op>>

\* expand(), lines 107-110: the child's own step, update and budget check
ExpandStep ==
    /\ pc = "step"
    /\ LET c == Child(nodes, leaf_to_expand, action)
           res == EnvStep(env, nodes[c].state, action)
       IN nodes' = Update([nodes EXCEPT ![c].state = res.state], c,
                          res.reward, res.done, config.gamma)
    /\ last_call' = StepStateArgs(nodes[Child(nodes, leaf_to_expand, action)].state,
                                  action)
    /\ oracle_calls' = StepStateCalls(oracle_calls)
    /\ IF BudgetReached(oracle_calls')
       THEN pc' = "backup" /\ UNCHANGED action
       ELSE pc' = "expand" /\ action' = action + 1
    /\ UNCHANGED <<config, env, root, leaves, iter, leaf_to_expand, replay,
                   created, plan_result, plans, last_op>>

\* expand(), lines 112-113: the loop ran to its end
ExpandFinish ==
    /\ pc = "expand"
    /\ action = NumActions
    /\ leaves' = RemoveFirst(leaves, leaf_to_expand) \o nodes[leaf_to_expand].children
    /\ pc' = "backup"
    /\ UNCHANGED <<config, env, nodes, root, oracle_calls, iter, leaf_to_expand,
                   action, replay, created, plan_result, plans, last_op, last_call>>

\* run(), line 48, then plan(), lines 53-56: backup, budget check, next cycle
RunBackup ==
    /\ pc = "backup"
    /\ nodes' = BackupToRoot(nodes, leaf_to_expand)
    /\ pc' = IF BudgetReached(oracle_calls) \/ iter >= NumRuns
             THEN "get_plan" ELSE "plan_loop"
    /\ UNCHANGED <<config, env, root, leaves, oracle_calls, iter, leaf_to_expand,
                   action, replay, created, plan_result, plans, last_op, last_call>>

\* plan(), line 57: the plan is returned and the locals of the call are gone
PlanReturn ==
    /\ pc = "get_plan"
    /\ \E p \in GetPlan(nodes, root) : plan_result' = p
    /\ pc' = "idle"
    /\ last_op' = "plan"
    /\ iter' = 0
    /\ leaf_to_expand' = None
    /\ action' = 0
    /\ replay' = 0
    /\ created' = <<>>
    /\ last_call' = NoCall
    /\ UNCHANGED <<config, env, nodes, root, leaves, oracle_calls, plans>>

----------------------------------------------------------------------------
(* step_by_subtree(action), for an action the root has a child for *)

StepBySubtree(a) ==
    /\ pc = "idle"
    /\ a \in ChildKeys(nodes, root)
    /\ LET sup == SuperStepBySubtree(nodes, root, a)
           lv == IF sup.nodes[sup.root].children = <<>> THEN <<sup.root>> ELSE leaves
           ns1 == Rescale(sup.nodes, lv, 1, sup.root, config.gamma)
       IN /\ root' = sup.root
          /\ leaves' = lv
          /\ nodes' = BackupValues(ns1, sup.root)
    /\ last_op' = "step_by_subtree"
    /\ plan_result' = <<>>
    /\ UNCHANGED <<config, env, oracle_calls, pc, iter, leaf_to_expand, action,
                   replay, created, plans, last_call>>

----------------------------------------------------------------------------

Next ==
    \/ \E state \in EnvStates : Plan(state)
    \/ RunSelect
    \/ RunUnbound
    \/ ExpandCreate
    \/ ExpandReplay
    \/ ExpandStep
    \/ ExpandFinish
    \/ RunBackup
    \/ PlanReturn
    \/ \E a \in Actions : StepBySubtree(a)

Spec == Init /\ [][Next]_vars

----------------------------------------------------------------------------
(* Vocabulary of the properties *)

\* the nodes reachable from x through children
RECURSIVE Subtree(_, _)
Subtree(ns, x) == {x} \cup UNION {Subtree(ns, c) : c \in Range(ns[x].children)}

Childless(ns, x) == ns[x].children = <<>>

\* number of transitions on the path from node r down to node x of its subtree
RECURSIVE Distance(_, _, _)
Distance(ns, r, x) == IF x = r THEN 0 ELSE 1 + Distance(ns, r, ns[x].parent)

\* cumulative discounted return of the path from r to x: the i-th transition
\* contributes gamma^(i-1) times its reward
RECURSIVE PathReturn(_, _, _, _)
PathReturn(ns, r, x, gamma) ==
    IF x = r THEN Zero
    ELSE RAdd(PathReturn(ns, r, ns[x].parent, gamma),
              RMul(RPow(gamma, Distance(ns, r, x) - 1), ns[x].reward))

\* expand() has just returned to run()
ExpandReturned ==
    /\ pc = "backup"
    /\ ~nodes[leaf_to_expand].done \/ config.ignore_terminal

\* a backup pass has just ended and the tree has not changed since
AfterBackup ==
    \/ pc \in {"plan_loop", "get_plan"} /\ iter > 0
    \/ pc = "idle" /\ last_op \in {"plan", "step_by_subtree"}

\* a child created by an expansion that never received update(reward, done)
Unusable(ns, x) == ns[x].depth > 0 /\ ~ns[x].updated

\* the nodes a plan walks through below the root
RECURSIVE PlanNodes(_, _, _)
PlanNodes(ns, x, p) ==
    IF p = <<>> THEN {}
    ELSE LET c == Child(ns, x, p[1]) IN {c} \cup PlanNodes(ns, c, Tail(p))

Occurrences(lv, x) == Cardinality({i \in 1 .. Len(lv) : lv[i] = x})

----------------------------------------------------------------------------
(* C1: during plan() the oracle-call counter never exceeds budget, plan()     *)
(* starts at most ceil(budget / n) run() cycles, and it is never at the head *)
(* of a further cycle once the counter has reached budget.                   *)
C1_BudgetRespected ==
    /\ oracle_calls <= config.budget
    /\ iter <= NumRuns
    /\ pc = "plan_loop" => oracle_calls < config.budget

\* the loop was left by the break, before its last cycle, with the counter at budget
C1_Witness ==
    /\ pc = "get_plan"
    /\ oracle_calls = config.budget
    /\ iter < NumRuns

(* C2: when expand returns, after all n actions or early on the budget, the  *)
(* expanded node is out of the Leaf Set and every child it created is in it. *)
C2_ExpandUpdatesLeafSet ==
    ExpandReturned =>
        /\ leaf_to_expand \notin Range(leaves)
        /\ Range(created) \subseteq Range(leaves)

(* C3: after every backup pass every node of the tree, the root included,    *)
(* has value <= value_upper_bound.                                           *)
C3_ValueBelowBound ==
    AfterBackup =>
        \A x \in Subtree(nodes, root) : RLeq(nodes[x].value, nodes[x].value_upper_bound)

\* node L's value and bound after the step are (before - r) / gamma
RescaledBy(L, r) ==
    /\ nodes'[L].value = RDiv(RSub(nodes[L].value, r), config.gamma)
    /\ nodes'[L].value_upper_bound =
           RDiv(RSub(nodes[L].value_upper_bound, r), config.gamma)

(* C4 as stated: step_by_subtree rescales every childless node of the        *)
(* retained subtree by the reward of the old root.                           *)
C4_RescaleByOldRootReward ==
    [][root' # root =>
          \A L \in Subtree(nodes', root') :
              Childless(nodes', L) => RescaledBy(L, nodes[root].reward)]_vars

(* C4 as amended: step_by_subtree rescales every childless node of the       *)
(* retained subtree that is in the Leaf Set, exactly once, by the reward of  *)
(* the new root (the promoted child).                                        *)
C4_RescaleLeafSetByNewRootReward ==
    [][root' # root =>
          \A L \in Subtree(nodes', root') :
              Childless(nodes', L) /\ L \in Range(leaves') =>
                  /\ RescaledBy(L, nodes'[root'].reward)
                  /\ Occurrences(leaves', L) = 1]_vars

\* a step has kept a childless leaf below a new root with a non-zero reward
C4_Witness ==
    /\ pc = "idle"
    /\ last_op = "step_by_subtree"
    /\ nodes[root].reward # Zero
    /\ \E L \in Subtree(nodes, root) \ {root} :
           Childless(nodes, L) /\ L \in Range(leaves)

(* C5: the current root has depth 0 and every child has its parent's depth   *)
(* plus 1.                                                                   *)
C5_RootDepthZero ==
    /\ nodes[root].depth = 0
    /\ \A x \in Subtree(nodes, root) : \A c \in Range(nodes[x].children) :
           nodes[c].depth = nodes[x].depth + 1

(* C6: between calls the Leaf Set holds exactly the childless nodes          *)
(* reachable from the current root, each once.                               *)
C6_LeafSetIsFrontier ==
    pc = "idle" =>
        /\ Range(leaves) = {x \in Subtree(nodes, root) : Childless(nodes, x)}
        /\ \A x \in Range(leaves) : Occurrences(leaves, x) = 1

(* C7: a child that never received update is unusable: it is not in the      *)
(* Leaf Set run() chooses from, and no returned plan leads into it.          *)
C7_UnusableNodesIgnored ==
    /\ \A x \in Range(leaves) : ~Unusable(nodes, x)
    /\ pc = "idle" /\ last_op = "plan" =>
           \A x \in PlanNodes(nodes, root, plan_result) : ~Unusable(nodes, x)

(* C8: with budget < n, when the expansion of the root returns, the number   *)
(* of its children that received update equals the oracle calls consumed,    *)
(* which equals budget.                                                      *)
C8_PartialRootExpansion ==
    ExpandReturned /\ leaf_to_expand = root /\ config.budget < NumActions =>
        /\ oracle_calls = config.budget
        /\ Cardinality({c \in Range(nodes[root].children) : nodes[c].updated})
               = oracle_calls

(* C9: selection_rule on a node with children returns, whatever the          *)
(* tie-break, a key of its children whose child has the maximum value; on a  *)
(* childless node it returns no action.                                      *)
C9_SelectionRuleIsArgmax ==
    \A x \in NodeIds :
        LET S == SelectionRule(nodes, x)
        IN IF Childless(nodes, x) THEN S = {None}
           ELSE /\ S # {}
                /\ \A a \in S :
                       /\ a \in ChildKeys(nodes, x)
                       /\ \A b \in ChildKeys(nodes, x) :
                              RLeq(nodes[Child(nodes, x, b)].value,
                                   nodes[Child(nodes, x, a)].value)

\* a plan was extracted from a tree in which some node's children differ in
\* value while their bounds do not order them the same way
C9_Witness ==
    /\ pc = "idle"
    /\ last_op = "plan"
    /\ \E x \in Subtree(nodes, root) : \E a, b \in ChildKeys(nodes, x) :
           /\ RLt(nodes[Child(nodes, x, a)].value, nodes[Child(nodes, x, b)].value)
           /\ RLeq(nodes[Child(nodes, x, b)].value_upper_bound,
                   nodes[Child(nodes, x, a)].value_upper_bound)

(* C10: between calls every childless node that received update has a value  *)
(* equal to the cumulative discounted return of the path from the current    *)
(* root to it.                                                               *)
C10_LeafValueIsPathReturn ==
    pc = "idle" =>
        \A x \in Subtree(nodes, root) :
            Childless(nodes, x) /\ nodes[x].updated =>
                nodes[x].value = PathReturn(nodes, root, x, config.gamma)

----------------------------------------------------------------------------
\* run() has chosen a terminal leaf while terminal leaves are not ignored
TerminalSkip(leaf) == nodes[leaf].done /\ ~config.ignore_terminal

(* C11: a run() cycle whose chosen leaf is terminal, with ignore_terminal    *)
(* false, makes no oracle call, creates no child and leaves the Leaf Set     *)
(* unchanged, and still runs backup_to_root from that leaf.                  *)
C11_TerminalLeafSkipped ==
    [][/\ (pc = "plan_loop" /\ TerminalSkip(LeafToExpand(nodes, leaves))) =>
              /\ pc' = "backup"
              /\ leaf_to_expand' = LeafToExpand(nodes, leaves)
              /\ oracle_calls' = oracle_calls
              /\ nodes' = nodes
              /\ leaves' = leaves
       /\ (pc = "backup" /\ TerminalSkip(leaf_to_expand)) =>
              /\ oracle_calls' = oracle_calls
              /\ leaves' = leaves
              /\ Len(nodes') = Len(nodes)
              /\ \A x \in NodeIds : nodes'[x].children = nodes[x].children
              /\ nodes[leaf_to_expand].parent # None =>
                     /\ nodes'[leaf_to_expand].count = nodes[leaf_to_expand].count + 1
                     /\ nodes'[nodes[leaf_to_expand].parent].value =
                            RMax({nodes[c].value :
                                  c \in Range(nodes[nodes[leaf_to_expand].parent].children)})
      ]_vars

\* a cycle that skipped a terminal leaf below the root has ended with its backup
C11_Witness ==
    /\ pc \in {"plan_loop", "get_plan"}
    /\ iter > 0
    /\ TerminalSkip(leaf_to_expand)
    /\ nodes[leaf_to_expand].parent # None
    /\ nodes[leaf_to_expand].count > 1

----------------------------------------------------------------------------
(* One plan() call of a fresh planner as a function of its inputs: the tree, *)
(* the Leaf Set and the counter that lines 40-57 and 87-113 compute from the *)
(* configuration, the environment and the start state.                       *)

\* the replay loop, lines 102-105, from its k-th round
RECURSIVE ReplayFrom(_, _, _)
ReplayFrom(calls, k, depth) ==
    IF k >= depth THEN [calls |-> calls, returned |-> FALSE]
    ELSE IF BudgetReached(StepStateCalls(calls))
         THEN [calls |-> StepStateCalls(calls), returned |-> TRUE]
         ELSE ReplayFrom(StepStateCalls(calls), k + 1, depth)

\* expand(leaves) of node self, lines 94-113, from action a on
RECURSIVE ExpandFrom(_, _, _)
ExpandFrom(st, self, a) ==
    IF a >= NumActions
    THEN [st EXCEPT !.leaves = RemoveFirst(st.leaves, self) \o st.nodes[self].children]
    ELSE LET c == Len(st.nodes) + 1
             ns1 == Append([st.nodes EXCEPT ![self].children = SetChild(@, a, c)],
                           NewNode(self, st.nodes[self].state, st.nodes[self].depth + 1))
             rp == IF config.restart
                   THEN ReplayFrom(st.calls, 0, st.nodes[self].depth)
                   ELSE [calls |-> st.calls, returned |-> FALSE]
             res == EnvStep(env, ns1[c].state, a)
             ns2 == Update([ns1 EXCEPT ![c].state = res.state], c,
                           res.reward, res.done, config.gamma)
         IN IF rp.returned
            THEN [st EXCEPT !.nodes = ns1, !.calls = rp.calls]
            ELSE IF BudgetReached(StepStateCalls(rp.calls))
                 THEN [st EXCEPT !.nodes = ns2, !.calls = StepStateCalls(rp.calls)]
                 ELSE ExpandFrom([st EXCEPT !.nodes = ns2,
                                            !.calls = StepStateCalls(rp.calls)],
                                 self, a + 1)

\* the loop of plan(), lines 53-56, from its i-th round
RECURSIVE RunCycles(_, _)
RunCycles(st, i) ==
    IF i >= NumRuns THEN st
    ELSE LET leaf == LeafToExpand(st.nodes, st.leaves)
             st1 == IF ~st.nodes[leaf].done \/ config.ignore_terminal
                    THEN ExpandFrom(st, leaf, 0)
                    ELSE st
             st2 == [st1 EXCEPT !.nodes = BackupToRoot(st1.nodes, leaf)]
         IN IF BudgetReached(st2.calls) THEN st2 ELSE RunCycles(st2, i + 1)

PlanOnce ==
    RunCycles([nodes |-> <<NewNode(None, StartState, 0)>>, leaves |-> <<1>>,
               calls |-> 0], 0)

(* C12: tree growth is deterministic: whatever run a fresh planner takes     *)
(* through its first plan(), the tree (every field of every node), the Leaf  *)
(* Set in its order and the number of oracle calls it ends with are the ones *)
(* fixed by its configuration, environment and start state alone, so two     *)
(* planners with the same inputs end with the same ones.                     *)
C12_FirstPlanDeterministic ==
    pc = "get_plan" /\ plans = 1 =>
        /\ nodes = PlanOnce.nodes
        /\ leaves = PlanOnce.leaves
        /\ oracle_calls = PlanOnce.calls

\* a first plan() has grown a tree past the root's children and ends with two
\* leaves tied on their bound
C12_Witness ==
    /\ pc = "get_plan"
    /\ plans = 1
    /\ Len(nodes) > NumActions + 1
    /\ \E i, j \in 1 .. Len(leaves) :
           /\ i < j
           /\ nodes[leaves[i]].value_upper_bound = nodes[leaves[j]].value_upper_bound

----------------------------------------------------------------------------
\* the pair backup_values() returns: get_value(), get_value_upper_bound()
BackupValuesResult(ns, x) ==
    LET after == BackupValues(ns, x)
    IN <<after[x].value, after[x].value_upper_bound>>

(* C13: backup_values is idempotent: on every tree a plan() has grown, and   *)
(* from every node of it, a second call on the tree the first call left      *)
(* changes no value and no bound of any node and returns the same pair.      *)
C13_BackupValuesIdempotent ==
    pc = "get_plan" =>
        \A x \in NodeIds :
            LET once == BackupValues(nodes, x)
            IN /\ BackupValues(once, x) = once
               /\ BackupValuesResult(once, x) = BackupValuesResult(nodes, x)

\* a grown tree of depth two on which a backup_values from the root changes a
\* value
C13_Witness ==
    /\ pc = "get_plan"
    /\ \E c \in Range(nodes[root].children) : nodes[c].children # <<>>
    /\ BackupValues(nodes, root) # nodes

----------------------------------------------------------------------------
(* C14: expand on a node whose state is not set fails with an error and      *)
(* leaves no partial result: no child is created, the Leaf Set and the       *)
(* oracle-call counter are unchanged.                                        *)
C14_UnboundExpandFails ==
    [][/\ (/\ pc \in {"idle", "plan_loop"}
           /\ pc' \in {"expand", "backup", "error"}
           /\ StateNotSet(nodes, leaf_to_expand')
           /\ ~TerminalSkip(leaf_to_expand')) =>
              pc' = "error"
       /\ pc' = "error" =>
              /\ nodes' = nodes
              /\ leaves' = leaves
              /\ oracle_calls' = oracle_calls
      ]_vars

\* expand has raised on the unbound root
C14_Witness ==
    /\ pc = "error"
    /\ StateNotSet(nodes, leaf_to_expand)

----------------------------------------------------------------------------
\* the nodes from x up to the node of its parent chain that has no parent
RECURSIVE PathToTop(_, _)
PathToTop(ns, x) ==
    IF ns[x].parent = None THEN {x} ELSE {x} \cup PathToTop(ns, ns[x].parent)

(* C15: backup_to_root started at X leaves X's own value and the root's      *)
(* value_upper_bound unchanged; for every node Y with a parent on the path   *)
(* from X upwards it sets Y.parent.value to the maximum value over           *)
(* Y.parent's children, Y.value_upper_bound to the maximum value_upper_bound *)
(* over those children, and adds one to Y.count; nothing else changes.       *)
C15_BackupToRootEffect ==
    [][pc = "backup" =>
          LET X == leaf_to_expand
              path == PathToTop(nodes, X)
          IN /\ nodes'[X].value = nodes[X].value
             /\ nodes'[root].value_upper_bound = nodes[root].value_upper_bound
             /\ \A Y \in path :
                    nodes[Y].parent # None =>
                        LET p == nodes[Y].parent
                            kids == Range(nodes[p].children)
                        IN /\ nodes'[p].value = RMax({nodes'[c].value : c \in kids})
                           /\ nodes'[Y].value_upper_bound =
                                  RMax({nodes[c].value_upper_bound : c \in kids})
                           /\ nodes'[Y].count = nodes[Y].count + 1
             /\ Len(nodes') = Len(nodes)
             /\ \A z \in NodeIds \ path : nodes'[z] = nodes[z]
             /\ \A z \in path :
                    nodes'[z] = [nodes[z] EXCEPT
                                     !.value = nodes'[z].value,
                                     !.value_upper_bound = nodes'[z].value_upper_bound,
                                     !.count = nodes'[z].count]
      ]_vars

\* a backup has just run from a node two levels below the top of its chain
C15_Witness ==
    /\ pc \in {"plan_loop", "get_plan"}
    /\ iter > 0
    /\ nodes[leaf_to_expand].parent # None
    /\ nodes[nodes[leaf_to_expand].parent].parent # None
    /\ nodes[leaf_to_expand].count > 0

----------------------------------------------------------------------------
\* the action under which x hangs in its parent's children, None for a child
\* the parent no longer holds
ActionOf(ns, x) ==
    LET p == ns[x].parent
    IN IF \E a \in ChildKeys(ns, p) : Child(ns, p, a) = x
       THEN CHOOSE a \in ChildKeys(ns, p) : Child(ns, p, a) = x
       ELSE None

\* the actions of the path from the top of x's parent chain down to x
RECURSIVE PathActions(_, _)
PathActions(ns, x) ==
    IF ns[x].parent = None THEN <<>>
    ELSE Append(PathActions(ns, ns[x].parent), ActionOf(ns, x))

----------------------------------------------------------------------------
(* C17: the leaf run() chooses sits at a position of the Leaf Set whose       *)
(* value_upper_bound no member exceeds and no earlier member equals: the     *)
(* first maximum in insertion order, fixed by the planner's state alone.     *)
C17_FirstMaximalLeafChosen ==
    [][(pc \in {"idle", "plan_loop"} /\ pc' \in {"expand", "backup", "error"}) =>
          \E k \in 1 .. Len(leaves) :
              /\ leaf_to_expand' = leaves[k]
              /\ \A j \in 1 .. Len(leaves) :
                     RLeq(nodes[leaves[j]].value_upper_bound,
                          nodes[leaves[k]].value_upper_bound)
              /\ \A j \in 1 .. (k - 1) :
                     RLt(nodes[leaves[j]].value_upper_bound,
                         nodes[leaves[k]].value_upper_bound)
      ]_vars

\* run() has just chosen its leaf, and a later member of the Leaf Set has the
\* same, maximal, value_upper_bound
C17_Witness ==
    /\ pc = "expand"
    /\ action = 0
    /\ created = <<>>
    /\ \E j, k \in 1 .. Len(leaves) :
           /\ j < k
           /\ leaves[j] = leaf_to_expand
           /\ leaves[k] # leaf_to_expand
           /\ nodes[leaves[k]].value_upper_bound =
                  nodes[leaf_to_expand].value_upper_bound

----------------------------------------------------------------------------
(* C18: whenever run() enters expand on a node, that node has no children    *)
(* and lies in the subtree of the current root: no node is expanded twice    *)
(* and no oracle call goes to a branch step_by_subtree has discarded.        *)
C18_ExpandsFreshReachableNodes ==
    (pc = "expand" /\ action = 0 /\ created = <<>>) =>
        /\ Childless(nodes, leaf_to_expand)
        /\ leaf_to_expand \in Subtree(nodes, root)

----------------------------------------------------------------------------
\* restart = false and ignore_terminal = true, the values of default_config
DefaultFlags == ~config.restart /\ config.ignore_terminal

\* the thread is inside plan()
InPlan == pc \in {"plan_loop", "expand", "replay", "step", "backup", "get_plan"}

\* the statement plan() is at can be executed: the loop has a cycle left and a
\* leaf to choose, the child to step exists, list.remove finds its element,
\* get_plan has a plan to return
PlanCanStep ==
    \/ pc = "plan_loop" /\ iter < NumRuns /\ leaves # <<>>
    \/ pc = "expand" /\ action < NumActions
    \/ pc = "expand" /\ action = NumActions /\ Occurrences(leaves, leaf_to_expand) > 0
    \/ pc = "replay" /\ replay < nodes[leaf_to_expand].depth
    \/ pc = "step" /\ action \in ChildKeys(nodes, leaf_to_expand)
    \/ pc = "backup"
    \/ pc = "get_plan" /\ GetPlan(nodes, root) # {}

\* an upper bound on the statements plan() has still to execute without
\* restart: per cycle the leaf choice, two per action, the Leaf Set update and
\* the backup, and the return at the end
StepsLeft ==
    LET perRun == 2 * NumActions + 4
        after == (NumRuns - iter) * perRun + 1
    IN CASE pc = "plan_loop" -> after + 1
         [] pc = "expand" -> after + 2 * (NumActions - action) + 4
         [] pc = "step" -> after + 2 * (NumActions - action) + 3
         [] pc = "backup" -> after + 2
         [] pc = "get_plan" -> 1
         [] OTHER -> 0

(* C19: with restart off and ignore_terminal on, every plan() terminates:    *)
(* inside plan() the next statement can always be executed, it never raises, *)
(* and each step strictly lowers a natural-number bound on the steps left;   *)
(* and whenever plan() returns, the oracle-call counter equals the budget    *)
(* exactly.                                                                  *)
C19_PlanSpendsExactBudget ==
    /\ []((DefaultFlags /\ InPlan) => (PlanCanStep /\ StepsLeft \in Nat))
    /\ [][(DefaultFlags /\ InPlan) =>
              /\ StepsLeft' < StepsLeft
              /\ pc' \notin {"error", "replay"}
              /\ pc' = "idle" => oracle_calls' = config.budget
         ]_vars

\* a plan() has returned under the default flags with a budget that is not a
\* multiple of the action count, so its last expansion was cut short
C19_Witness ==
    /\ DefaultFlags
    /\ pc = "idle"
    /\ last_op = "plan"
    /\ config.budget % NumActions # 0
    /\ config.budget > NumActions
    /\ oracle_calls = config.budget

====
